---- MODULE Spec2Model ----
\* Instance lifecycle of anywhere_backend: the inventory table (repository), the
\* EC2 gateway, V2RayService.CreateInstance / DeleteInstance with their detached
\* workflows, and the AWSInstanceSyncTask reconciler.
\*
\* Granularity: one action per SQL statement or cloud API call, the unit at which
\* goroutines of the process interleave.  Local computation between two calls is
\* folded into the step of the call that precedes it.
EXTENDS Integers, Sequences, FiniteSets, TLC

\* ---------------------------------------------------------------- bounds
MaxRows == 3        \* rows the table may hold before inserts are cut off
MaxStops == 2       \* calls of Scheduler.Stop a caller makes

\* ---------------------------------------------------------------- constants
StatusPending == "pending"
StatusCreating == "creating"
StatusRunning == "running"
StatusDeleting == "deleting"
StatusDeleted == "deleted"
StatusError == "error"

Statuses ==
  {StatusPending, StatusCreating, StatusRunning, StatusDeleting, StatusDeleted, StatusError}

\* config.AppConfig.AWS.Regions: the configured region table.
ConfiguredRegions == {"r1"}
\* Regions a caller may put in a request body; "rx" is not configured.
RequestRegions == {"r1", "rx"}

\* HTTP create requests and delete requests in flight over a run.
CreateCalls == {"c1", "c2"}
DeleteCalls == {"d1"}

\* uuid.New() of a create call: fresh, so one uuid per call.
NewUUID(c) == IF c = "c1" THEN "u1" ELSE "u2"
\* A record of an earlier creation whose wait timed out, and its instance.
LegacyUUID == "u0"
LegacyInstanceId == "i0"
UUIDs == {NewUUID(c) : c \in CreateCalls} \cup {LegacyUUID}

\* RunInstances answers with a fresh instance id: one per creation workflow.
NewInstanceId(c) == IF c = "c1" THEN "i1" ELSE "i2"
InstanceIds == {NewInstanceId(c) : c \in CreateCalls} \cup {LegacyInstanceId}
PublicIpOf(i) == CASE i = "i1" -> "ip1" [] i = "i2" -> "ip2" [] OTHER -> "ip0"

\* Pooled database sessions of sqlx.DB; every statement runs on one of them.
Sessions == {"s1", "s2"}
NoSession == "none"

\* Task objects handed to Scheduler.Register: AWSInstanceSyncTask is the one
\* implementation of Task, and Name() returns the same string for each of them.
Tasks == {"t1", "t2"}
NoTask == "none"
TaskNames == {"aws_instance_sync"}
Name(t) == "aws_instance_sync"

NoInst == [state |-> "absent", region |-> "", tag |-> "", ip |-> ""]
NoRow == [uuid |-> "", ec2id |-> "", region |-> "", ip |-> "", status |-> "", deleted |-> FALSE]

VARIABLES
  store,      \* v2ray_instances: sequence of rows, index = id (AUTO_INCREMENT)
  cloud,      \* EC2: instance id -> [state, region, tag, ip]
  lockOwner,  \* session holding LOCK TABLES ... WRITE, or NoSession
  cr,         \* CreateInstance calls: call -> [pc, region, uuid, err]
  wf,         \* createInstanceAsync goroutines: call -> [pc, ec2ID, instance, ip, ...]
  dl,         \* DeleteInstance calls: call -> [pc, uuid, err]
  td,         \* deleteInstanceAsync goroutines: call -> [pc, ec2ID, region]
  rc,         \* syncInstances: [pc, dbInstanceMap, regions, instances]
  wg,         \* V2RayService.wg counter
  faulty,     \* whether store and cloud calls may return an error in this run
  sched,      \* the Scheduler, its caller and the stop channels of the tasks
  drain,      \* the caller of V2RayService.Wait: "idle", "waiting" or "returned"
  localV2RayManager  \* V2RayService.localV2RayManager: "nil" or "set"

vars == <<store, cloud, lockOwner, cr, wf, dl, td, rc, wg, faulty, sched, drain,
          localV2RayManager>>

\* ---------------------------------------------------------------- repository
Active(row) ==
  /\ ~row.deleted
  /\ row.status \in {StatusPending, StatusCreating, StatusRunning}

Rows(st) == DOMAIN st

\* INSERT (uuid, ec2_id, ec2_region, status, is_deleted); ec2_public_ip keeps its
\* column default ''.
Create(st, instance) ==
  Append(st, [uuid |-> instance.uuid, ec2id |-> instance.ec2id,
              region |-> instance.region, ip |-> "",
              status |-> instance.status, deleted |-> instance.deleted])

\* A faulty variant of GetByUUID without the is_deleted filter.
GetByUUIDAny(st, uuid) == {i \in Rows(st) : st[i].uuid = uuid}

\* SELECT * WHERE uuid = ? AND is_deleted = false: the candidate rows.
GetByUUID(st, uuid) == {i \in Rows(st) : st[i].uuid = uuid /\ ~st[i].deleted}

\* SELECT * WHERE is_deleted = false.
List(st) == {i \in Rows(st) : ~st[i].deleted}

\* A faulty variant of Update whose statement leaves the ec2_id column out.
UpdateWithoutEC2ID(st, instance) ==
  [i \in Rows(st) |->
     IF st[i].uuid = instance.uuid
     THEN [st[i] EXCEPT !.region = instance.region,
                        !.ip = instance.ip, !.status = instance.status,
                        !.deleted = instance.deleted]
     ELSE st[i]]

\* UPDATE SET ec2_id, ec2_region, ec2_public_ip, status, is_deleted WHERE uuid = ?
Update(st, instance) ==
  [i \in Rows(st) |->
     IF st[i].uuid = instance.uuid
     THEN [st[i] EXCEPT !.ec2id = instance.ec2id, !.region = instance.region,
                        !.ip = instance.ip, !.status = instance.status,
                        !.deleted = instance.deleted]
     ELSE st[i]]

\* UPDATE SET status = ? WHERE uuid = ?
UpdateStatus(st, uuid, status) ==
  [i \in Rows(st) |-> IF st[i].uuid = uuid THEN [st[i] EXCEPT !.status = status] ELSE st[i]]

\* UPDATE SET status = ?, ec2_public_ip = ? WHERE uuid = ?
UpdateStatusAndIP(st, uuid, status, publicIP) ==
  [i \in Rows(st) |->
     IF st[i].uuid = uuid THEN [st[i] EXCEPT !.status = status, !.ip = publicIP] ELSE st[i]]

\* A faulty variant of Delete whose UPDATE has no WHERE clause.
DeleteEveryRow(st, uuid) ==
  [i \in Rows(st) |-> [st[i] EXCEPT !.status = StatusDeleted, !.deleted = TRUE]]

\* UPDATE SET status = 'deleted', is_deleted = true WHERE uuid = ?
Delete(st, uuid) ==
  [i \in Rows(st) |->
     IF st[i].uuid = uuid
     THEN [st[i] EXCEPT !.status = StatusDeleted, !.deleted = TRUE]
     ELSE st[i]]

\* SELECT COUNT(*) WHERE ec2_region = ? AND is_deleted = false AND status IN (...) > 0
CheckRegionHasActiveInstance(st, region) ==
  \E i \in Rows(st) : st[i].region = region /\ Active(st[i])

\* SELECT * ... LIMIT 1: the rows the statement may return (no ORDER BY).
GetRegionActiveInstance(st, region) ==
  {i \in Rows(st) : st[i].region = region /\ Active(st[i])}

\* A statement issued through r.db runs on some pooled session; a session other
\* than the holder of the table lock waits until the lock is released.
SessionUsable(s) == lockOwner \in {NoSession, s}
StoreReachable == \E s \in Sessions : SessionUsable(s)

\* A store or cloud call may return an error (connection lost, API error).
MayFail == faulty

\* LOCK TABLES v2ray_instances WRITE, on the session ExecContext picked.  A session
\* that already holds the lock re-acquires it at once.
LockTable == \E s \in Sessions : SessionUsable(s) /\ lockOwner' = s

\* UNLOCK TABLES releases the locks of the session it runs on, and nothing when
\* that session holds none.
UnlockTable == \E s \in Sessions : lockOwner' = IF lockOwner = s THEN NoSession ELSE lockOwner

\* ---------------------------------------------------------------- cloud gateway
ConvertInstanceStateToModelStatus(state) ==
  CASE state = "pending" -> StatusCreating
    [] state = "running" -> StatusRunning
    [] state = "shutting-down" -> StatusDeleting
    [] state = "terminated" -> StatusDeleted
    [] state = "stopped" -> StatusDeleted
    [] state = "stopping" -> StatusDeleting
    [] OTHER -> StatusError

\* EC2Client.DescribeInstances(region): every instance of the region that is not
\* terminated, as InstanceInfo.
DescribeInstances(cl, region) ==
  {[id |-> i, region |-> region, ip |-> cl[i].ip, uuid |-> cl[i].tag,
    status |-> ConvertInstanceStateToModelStatus(cl[i].state)] :
     i \in {j \in InstanceIds : cl[j].region = region
                                /\ cl[j].state \notin {"absent", "terminated"}}}

\* ---------------------------------------------------------------- initial state
\* publish: what AddInstance answered in this run of the goroutine ("" before);
\* describeErr: a DescribeInstances of WaitForInstanceRunning returned an error.
IdleWf == [pc |-> "off", ec2ID |-> "", instance |-> NoRow, ip |-> "", publish |-> "",
           describeErr |-> FALSE]
IdleRc == [pc |-> "idle", dbInstanceMap |-> << >>, regions |-> {}, instances |-> {}]

\* What an earlier run of the service can leave behind: a creation workflow that
\* gave up waiting wrote error, and the instance came up afterwards.
LegacyRow ==
  [uuid |-> LegacyUUID, ec2id |-> LegacyInstanceId, region |-> "r1", ip |-> "",
   status |-> StatusError, deleted |-> FALSE]
LegacyInst ==
  [state |-> "running", region |-> "r1", tag |-> LegacyUUID,
   ip |-> PublicIpOf(LegacyInstanceId)]

\* NewScheduler() and NewAWSInstanceSyncTask(): no task registered, the lifecycle
\* context live, every stop channel open, nothing launched.
NewScheduler ==
  [tasks |-> [n \in TaskNames |-> NoTask], cancelled |-> FALSE, wg |-> 0,
   started |-> FALSE, launches |-> [t \in Tasks |-> 0], running |-> NoTask,
   stopCh |-> [t \in Tasks |-> "open"], pc |-> "ready", arg |-> NoTask, stops |-> 0]

\* The scheduler as main leaves it before serving: s.Register(awsSyncTask);
\* s.Start().
Serving ==
  [NewScheduler EXCEPT !.tasks["aws_instance_sync"] = "t1", !.wg = 1, !.started = TRUE,
                       !.launches["t1"] = 1, !.running = "t1"]

\* The state after construction over the table `st` and the cloud `cl`; `f` says
\* whether store and cloud calls may fail.
InitConfigured(st, cl, f, manager) ==
  /\ store = st
  /\ cloud = cl
  /\ lockOwner = NoSession
  /\ cr = [c \in CreateCalls |-> [pc |-> "idle", region |-> "", uuid |-> "", err |-> FALSE]]
  /\ wf = [c \in CreateCalls |-> IdleWf]
  /\ dl = [d \in DeleteCalls |-> [pc |-> "idle", uuid |-> "", err |-> FALSE]]
  /\ td = [d \in DeleteCalls |-> [pc |-> "off", ec2ID |-> "", region |-> ""]]
  /\ rc = IdleRc
  /\ wg = 0
  /\ faulty = f
  /\ sched = Serving
  /\ drain = "idle"
  /\ localV2RayManager = manager

\* config.AppConfig.V2Ray.LocalConfigPath is set: the service has its manager.
InitWith(st, cl, f) == InitConfigured(st, cl, f, "set")

\* The service starts over the table and the cloud an earlier run left.
Init ==
  InitWith(<<LegacyRow>>,
           [i \in InstanceIds |-> IF i = LegacyInstanceId THEN LegacyInst ELSE NoInst],
           TRUE)

\* The service starts over an empty table and an empty cloud, and no call fails.
InitReliable == InitWith(<< >>, [i \in InstanceIds |-> NoInst], FALSE)

\* ---------------------------------------------------------------- CreateInstance
CrReturn(c, uuid, err) == [cr EXCEPT ![c].pc = "unlock", ![c].uuid = uuid, ![c].err = err]

\* s.repo.LockTable(ctx); on error the call returns before the defer is set.
CreateLockTable(c, region) ==
  /\ cr[c].pc = "idle"
  /\ \/ /\ LockTable
        /\ cr' = [cr EXCEPT ![c].pc = "check", ![c].region = region]
     \/ /\ MayFail
        /\ cr' = [cr EXCEPT ![c].pc = "done", ![c].region = region, ![c].err = TRUE]
        /\ UNCHANGED lockOwner
  /\ UNCHANGED <<store, cloud, wf, dl, td, rc, wg, faulty, sched, drain, localV2RayManager>>

\* s.repo.CheckRegionHasActiveInstance(ctx, region)
CreateCheck(c) ==
  /\ cr[c].pc = "check"
  /\ \/ /\ StoreReachable
        /\ cr' = [cr EXCEPT ![c].pc =
                    IF CheckRegionHasActiveInstance(store, cr[c].region)
                    THEN "existing" ELSE "insert"]
     \/ /\ MayFail
        /\ cr' = CrReturn(c, "", TRUE)
  /\ UNCHANGED <<store, cloud, lockOwner, wf, dl, td, rc, wg, faulty, sched, drain, localV2RayManager>>

\* s.repo.GetRegionActiveInstance(ctx, region); return existingInstance.UUID
CreateExisting(c) ==
  /\ cr[c].pc = "existing"
  /\ \/ /\ StoreReachable
        /\ \/ \E i \in GetRegionActiveInstance(store, cr[c].region) :
                cr' = CrReturn(c, store[i].uuid, FALSE)
           \/ /\ GetRegionActiveInstance(store, cr[c].region) = {}
              /\ cr' = CrReturn(c, "", TRUE)
     \/ /\ MayFail
        /\ cr' = CrReturn(c, "", TRUE)
  /\ UNCHANGED <<store, cloud, lockOwner, wf, dl, td, rc, wg, faulty, sched, drain, localV2RayManager>>

\* uuid.New(); s.repo.Create(ctx, instance) with status pending
CreateInsert(c) ==
  /\ cr[c].pc = "insert"
  /\ \/ /\ StoreReachable
        /\ Len(store) < MaxRows
        /\ store' = Create(store, [uuid |-> NewUUID(c), ec2id |-> "",
                                   region |-> cr[c].region, status |-> StatusPending,
                                   deleted |-> FALSE])
        /\ cr' = [cr EXCEPT ![c].pc = "verify"]
     \/ /\ MayFail
        /\ cr' = CrReturn(c, "", TRUE)
        /\ UNCHANGED store
  /\ UNCHANGED <<cloud, lockOwner, wf, dl, td, rc, wg, faulty, sched, drain, localV2RayManager>>

\* s.repo.List(ctx) and the count of active rows of the region; without a
\* duplicate: s.wg.Add(1); go s.createInstanceAsync(...); return instanceUUID
CreateVerify(c) ==
  /\ cr[c].pc = "verify"
  /\ \/ /\ StoreReachable
        /\ IF Cardinality({i \in List(store) :
                             store[i].region = cr[c].region /\ Active(store[i])}) > 1
           THEN /\ cr' = [cr EXCEPT ![c].pc = "duplicate"]
                /\ UNCHANGED <<wf, wg>>
           ELSE /\ cr' = CrReturn(c, NewUUID(c), FALSE)
                /\ wf' = [wf EXCEPT ![c].pc = "creating"]
                /\ wg' = wg + 1
     \/ /\ MayFail
        /\ cr' = CrReturn(c, "", TRUE)
        /\ UNCHANGED <<wf, wg>>
  /\ UNCHANGED <<store, cloud, lockOwner, dl, td, rc, faulty, sched, drain, localV2RayManager>>

\* s.repo.Delete(ctx, instanceUUID), its error dropped; return the error
CreateDuplicate(c) ==
  /\ cr[c].pc = "duplicate"
  /\ \/ /\ StoreReachable
        /\ store' = Delete(store, NewUUID(c))
     \/ /\ MayFail
        /\ UNCHANGED store
  /\ cr' = CrReturn(c, "", TRUE)
  /\ UNCHANGED <<cloud, lockOwner, wf, dl, td, rc, wg, faulty, sched, drain, localV2RayManager>>

\* the deferred s.repo.UnlockTable(ctx); its error is only logged
CreateUnlockTable(c) ==
  /\ cr[c].pc = "unlock"
  /\ \/ /\ UnlockTable
     \/ /\ MayFail
        /\ UNCHANGED lockOwner
  /\ cr' = [cr EXCEPT ![c].pc = "done"]
  /\ UNCHANGED <<store, cloud, wf, dl, td, rc, wg, faulty, sched, drain, localV2RayManager>>

\* ---------------------------------------------------------------- createInstanceAsync
\* A goroutine that ends: defer s.wg.Done().
WfDone(c) == [wf EXCEPT ![c].pc = "done", ![c].describeErr = FALSE]

\* s.repo.UpdateStatus(ctx, instanceUUID, StatusCreating); on error return
WorkflowCreating(c) ==
  /\ wf[c].pc = "creating"
  /\ \/ /\ StoreReachable
        /\ store' = UpdateStatus(store, NewUUID(c), StatusCreating)
        /\ wf' = [wf EXCEPT ![c].pc = "runInstances"]
        /\ UNCHANGED wg
     \/ /\ MayFail
        /\ wf' = WfDone(c)
        /\ wg' = wg - 1
        /\ UNCHANGED store
  /\ UNCHANGED <<cloud, lockOwner, cr, dl, td, rc, faulty, sched, drain, localV2RayManager>>

\* s.ec2Client.CreateInstance(ctx, region, userData, instanceUUID): no client for an
\* unconfigured region; else RunInstances with the tag UUID = instanceUUID.
WorkflowRunInstances(c) ==
  /\ wf[c].pc = "runInstances"
  /\ \/ /\ cr[c].region \in ConfiguredRegions
        /\ cloud' = [cloud EXCEPT ![NewInstanceId(c)] =
                       [state |-> "pending", region |-> cr[c].region,
                        tag |-> NewUUID(c), ip |-> ""]]
        /\ wf' = [wf EXCEPT ![c].pc = "getByUUID", ![c].ec2ID = NewInstanceId(c)]
     \/ /\ cr[c].region \notin ConfiguredRegions
        /\ wf' = [wf EXCEPT ![c].pc = "failed"]
        /\ UNCHANGED cloud
     \/ /\ cr[c].region \in ConfiguredRegions
        /\ MayFail
        /\ wf' = [wf EXCEPT ![c].pc = "failed"]
        /\ UNCHANGED cloud
  /\ UNCHANGED <<store, lockOwner, cr, dl, td, rc, wg, faulty, sched, drain, localV2RayManager>>

\* instance, err := s.repo.GetByUUID(ctx, instanceUUID); instance.EC2ID = ec2ID
WorkflowGetByUUID(c) ==
  /\ wf[c].pc = "getByUUID"
  /\ \/ /\ StoreReachable
        /\ \/ \E i \in GetByUUID(store, NewUUID(c)) :
                wf' = [wf EXCEPT ![c].pc = "update",
                                 ![c].instance = [store[i] EXCEPT !.ec2id = wf[c].ec2ID]]
           \/ /\ GetByUUID(store, NewUUID(c)) = {}
              /\ wf' = [wf EXCEPT ![c].pc = "failed"]
     \/ /\ MayFail
        /\ wf' = [wf EXCEPT ![c].pc = "failed"]
  /\ UNCHANGED <<store, cloud, lockOwner, cr, dl, td, rc, wg, faulty, sched, drain, localV2RayManager>>

\* s.repo.Update(ctx, instance); the snapshot is not read again afterwards
WorkflowUpdate(c) ==
  /\ wf[c].pc = "update"
  /\ \/ /\ StoreReachable
        /\ store' = Update(store, wf[c].instance)
        /\ wf' = [wf EXCEPT ![c].pc = "waitRunning", ![c].instance = NoRow]
     \/ /\ MayFail
        /\ wf' = [wf EXCEPT ![c].pc = "failed", ![c].instance = NoRow]
        /\ UNCHANGED store
  /\ UNCHANGED <<cloud, lockOwner, cr, dl, td, rc, wg, faulty, sched, drain, localV2RayManager>>

\* s.ec2Client.WaitForInstanceRunning: a poll whose DescribeInstances returns an
\* error is logged and the loop sleeps and polls again; the poll that ends the
\* loop: running -> nil; terminated or shutting-down -> error; any other answer
\* (another state, no reservation, failed describes) until the timeout -> error.
WorkflowWaitRunning(c) ==
  /\ wf[c].pc = "waitRunning"
  /\ \/ /\ MayFail
        /\ wf' = [wf EXCEPT ![c].describeErr = TRUE]
     \/ LET state == cloud[wf[c].ec2ID].state IN
          wf' = [wf EXCEPT ![c].pc = IF state = "running" THEN "getPublicIP" ELSE "failed"]
  /\ UNCHANGED <<store, cloud, lockOwner, cr, dl, td, rc, wg, faulty, sched, drain, localV2RayManager>>

\* s.ec2Client.GetInstancePublicIP: error when the describe fails, the instance
\* is not found or it has no public address.  The local V2Ray publish that
\* follows changes nothing here, whatever its outcome.
WorkflowGetPublicIP(c) ==
  /\ wf[c].pc = "getPublicIP"
  /\ \/ /\ wf' = IF cloud[wf[c].ec2ID].state = "absent" \/ cloud[wf[c].ec2ID].ip = ""
                 THEN [wf EXCEPT ![c].pc = "failed"]
                 ELSE [wf EXCEPT ![c].pc = "publish", ![c].ip = cloud[wf[c].ec2ID].ip]
     \/ /\ MayFail
        /\ wf' = [wf EXCEPT ![c].pc = "failed"]
  /\ UNCHANGED <<store, cloud, lockOwner, cr, dl, td, rc, wg, faulty, sched, drain, localV2RayManager>>

\* What the publish step can answer: nothing is called without a manager; with
\* one, AddInstance returns nil or the error of ReadConfig or WriteConfig (a
\* failed restart of the proxy is logged inside AddInstance and gives nil).
AddInstance == IF localV2RayManager = "nil" THEN {"none"} ELSE {"ok", "failed"}

\* A faulty variant of the publish step in which a failed AddInstance takes the
\* error exit of the workflow.
WorkflowPublishFatal(c) ==
  /\ wf[c].pc = "publish"
  /\ \E outcome \in AddInstance :
       wf' = [wf EXCEPT ![c].publish = outcome,
                        ![c].pc = IF outcome = "failed" THEN "failed" ELSE "running"]
  /\ UNCHANGED <<store, cloud, lockOwner, cr, dl, td, rc, wg, faulty, sched, drain, localV2RayManager>>

\* if s.localV2RayManager != nil { if err := s.localV2RayManager.AddInstance(...);
\* err != nil { log: "Continue even if local config update fails" } else { log } }
WorkflowPublish(c) ==
  /\ wf[c].pc = "publish"
  /\ \E outcome \in AddInstance :
       wf' = [wf EXCEPT ![c].publish = outcome, ![c].pc = "running"]
  /\ UNCHANGED <<store, cloud, lockOwner, cr, dl, td, rc, wg, faulty, sched, drain, localV2RayManager>>

\* s.repo.UpdateStatusAndIP(ctx, instanceUUID, StatusRunning, publicIP); return
WorkflowRunning(c) ==
  /\ wf[c].pc = "running"
  /\ \/ /\ StoreReachable
        /\ store' = UpdateStatusAndIP(store, NewUUID(c), StatusRunning, wf[c].ip)
     \/ /\ MayFail
        /\ UNCHANGED store
  /\ wf' = WfDone(c)
  /\ wg' = wg - 1
  /\ UNCHANGED <<cloud, lockOwner, cr, dl, td, rc, faulty, sched, drain, localV2RayManager>>

\* A faulty variant of the error exit that returns without writing error.
WorkflowFailedSilently(c) ==
  /\ wf[c].pc = "failed"
  /\ wf' = WfDone(c)
  /\ wg' = wg - 1
  /\ UNCHANGED <<store, cloud, lockOwner, cr, dl, td, rc, faulty, sched, drain, localV2RayManager>>

\* every error exit after the first step:
\* s.repo.UpdateStatus(ctx, instanceUUID, StatusError), its error dropped; return
WorkflowFailed(c) ==
  /\ wf[c].pc = "failed"
  /\ \/ /\ StoreReachable
        /\ store' = UpdateStatus(store, NewUUID(c), StatusError)
     \/ /\ MayFail
        /\ UNCHANGED store
  /\ wf' = WfDone(c)
  /\ wg' = wg - 1
  /\ UNCHANGED <<cloud, lockOwner, cr, dl, td, rc, faulty, sched, drain, localV2RayManager>>

\* ---------------------------------------------------------------- DeleteInstance
\* The handler passes its request context down to DeleteInstance, which hands it
\* to the goroutine; the context is cancelled once the handler has returned, and
\* every store or cloud call on a cancelled context returns an error.
RequestContextLive(d) == dl[d].pc # "done"

\* instance, err := s.repo.GetByUUID(ctx, uuid); of the row read, the goroutine
\* is later given instance.EC2ID and instance.EC2Region.
DeleteGetByUUID(d, uuid) ==
  /\ dl[d].pc = "idle"
  /\ \/ /\ StoreReachable
        /\ \/ \E i \in GetByUUID(store, uuid) :
                /\ dl' = [dl EXCEPT ![d].pc = "mark", ![d].uuid = uuid]
                /\ td' = [td EXCEPT ![d].ec2ID = store[i].ec2id,
                                    ![d].region = store[i].region]
           \/ /\ GetByUUID(store, uuid) = {}
              /\ dl' = [dl EXCEPT ![d].pc = "done", ![d].uuid = uuid, ![d].err = TRUE]
              /\ UNCHANGED td
     \/ /\ MayFail
        /\ dl' = [dl EXCEPT ![d].pc = "done", ![d].uuid = uuid, ![d].err = TRUE]
        /\ UNCHANGED td
  /\ UNCHANGED <<store, cloud, lockOwner, cr, wf, rc, wg, faulty, sched, drain, localV2RayManager>>

\* s.repo.UpdateStatus(ctx, uuid, StatusDeleting); s.wg.Add(1);
\* go s.deleteInstanceAsync(ctx, uuid, instance.EC2ID, instance.EC2Region)
DeleteMarkDeleting(d) ==
  /\ dl[d].pc = "mark"
  /\ \/ /\ StoreReachable
        /\ store' = UpdateStatus(store, dl[d].uuid, StatusDeleting)
        /\ dl' = [dl EXCEPT ![d].pc = "respond"]
        /\ td' = [td EXCEPT ![d].pc = "deleting"]
        /\ wg' = wg + 1
     \/ /\ MayFail
        /\ dl' = [dl EXCEPT ![d].pc = "done", ![d].err = TRUE]
        /\ UNCHANGED <<store, td, wg>>
  /\ UNCHANGED <<cloud, lockOwner, cr, wf, rc, faulty, sched, drain, localV2RayManager>>

\* return nil; the handler writes the response and returns
DeleteReturn(d) ==
  /\ dl[d].pc = "respond"
  /\ dl' = [dl EXCEPT ![d].pc = "done"]
  /\ UNCHANGED <<store, cloud, lockOwner, cr, wf, td, rc, wg, faulty, sched, drain, localV2RayManager>>

\* ---------------------------------------------------------------- deleteInstanceAsync
\* A call of the goroutine fails on a cancelled context, or by an injected error.
TdCallFails(d) == ~RequestContextLive(d) \/ MayFail

TdCallWorks(d) == RequestContextLive(d)

\* s.repo.UpdateStatus(ctx, uuid, StatusDeleting); on error return
TeardownDeleting(d) ==
  /\ td[d].pc = "deleting"
  /\ \/ /\ TdCallWorks(d) /\ StoreReachable
        /\ store' = UpdateStatus(store, dl[d].uuid, StatusDeleting)
        /\ td' = [td EXCEPT ![d].pc = "terminate"]
        /\ UNCHANGED wg
     \/ /\ TdCallFails(d)
        /\ td' = [td EXCEPT ![d].pc = "done"]
        /\ wg' = wg - 1
        /\ UNCHANGED store
  /\ UNCHANGED <<cloud, lockOwner, cr, wf, dl, rc, faulty, sched, drain, localV2RayManager>>

\* s.ec2Client.TerminateInstance(ctx, region, ec2ID): no client for an
\* unconfigured region, an error for an instance id EC2 does not know.
TeardownTerminate(d) ==
  /\ td[d].pc = "terminate"
  /\ LET id == td[d].ec2ID
         known == /\ td[d].region \in ConfiguredRegions
                  /\ id \in InstanceIds
                  /\ cloud[id].state # "absent"
     IN \/ /\ TdCallWorks(d) /\ known
           /\ cloud' = [cloud EXCEPT ![id].state =
                          IF @ = "terminated" THEN @ ELSE "shutting-down"]
           /\ td' = [td EXCEPT ![d].pc = "waitTerminated"]
        \/ /\ TdCallWorks(d) /\ ~known
           /\ td' = [td EXCEPT ![d].pc = "failed"]
           /\ UNCHANGED cloud
        \/ /\ TdCallFails(d)
           /\ td' = [td EXCEPT ![d].pc = "failed"]
           /\ UNCHANGED cloud
  /\ UNCHANGED <<store, lockOwner, cr, wf, dl, rc, wg, faulty, sched, drain, localV2RayManager>>

\* s.ec2Client.WaitForInstanceTerminated: the poll that ends the loop.  No
\* reservation or terminated -> nil; a failed describe -> error; any other state
\* keeps polling until the timeout -> error.
TeardownWaitTerminated(d) ==
  /\ td[d].pc = "waitTerminated"
  /\ \/ /\ TdCallWorks(d)
        /\ td' = [td EXCEPT ![d].pc =
                    IF cloud[td[d].ec2ID].state \in {"absent", "terminated"}
                    THEN "delete" ELSE "failed"]
     \/ /\ TdCallFails(d)
        /\ td' = [td EXCEPT ![d].pc = "failed"]
  /\ UNCHANGED <<store, cloud, lockOwner, cr, wf, dl, rc, wg, faulty, sched, drain, localV2RayManager>>

\* s.repo.Delete(ctx, uuid); return
TeardownDelete(d) ==
  /\ td[d].pc = "delete"
  /\ \/ /\ TdCallWorks(d) /\ StoreReachable
        /\ store' = Delete(store, dl[d].uuid)
     \/ /\ TdCallFails(d)
        /\ UNCHANGED store
  /\ td' = [td EXCEPT ![d].pc = "done"]
  /\ wg' = wg - 1
  /\ UNCHANGED <<cloud, lockOwner, cr, wf, dl, rc, faulty, sched, drain, localV2RayManager>>

\* A faulty variant of the teardown's error exit that skips s.wg.Done().
TeardownFailedUncounted(d) ==
  /\ td[d].pc = "failed"
  /\ td' = [td EXCEPT ![d].pc = "done"]
  /\ UNCHANGED <<store, cloud, lockOwner, cr, wf, dl, rc, wg, faulty, sched, drain, localV2RayManager>>

\* s.repo.UpdateStatus(ctx, uuid, StatusError), its error dropped; return
TeardownFailed(d) ==
  /\ td[d].pc = "failed"
  /\ \/ /\ TdCallWorks(d) /\ StoreReachable
        /\ store' = UpdateStatus(store, dl[d].uuid, StatusError)
     \/ /\ TdCallFails(d)
        /\ UNCHANGED store
  /\ td' = [td EXCEPT ![d].pc = "done"]
  /\ wg' = wg - 1
  /\ UNCHANGED <<cloud, lockOwner, cr, wf, dl, rc, faulty, sched, drain, localV2RayManager>>

\* ---------------------------------------------------------------- syncInstances
Min(S) == CHOOSE x \in S : \A y \in S : x <= y

\* dbInstanceMap[instance.EC2ID] = instance over the List result (newest first):
\* of the rows that share an EC2ID the last one written, the oldest, stays.
DbInstanceMap(st) ==
  [e \in {st[i].ec2id : i \in List(st)} |->
     st[Min({i \in List(st) : st[i].ec2id = e})]]

MapWithout(m, k) == [e \in DOMAIN m \ {k} |-> m[e]]

\* After the instances of a region: the next region, or the final sweep.
RcNext(regions, instances) ==
  IF instances # {} THEN "instances" ELSE IF regions # {} THEN "regions" ELSE "sweep"

\* The pass runs on the scheduler's lifecycle context: once that is cancelled,
\* every store or cloud call of the pass returns an error.
SyncCallWorks == ~sched.cancelled
SyncCallFails == MayFail \/ sched.cancelled

\* t.syncInstances(ctx), called when the task starts ("launched") and on every
\* tick of the ticker ("idle", the select of the loop):
\* dbInstances, err := t.repo.List(ctx); on error the pass ends
SyncList ==
  /\ rc.pc \in {"idle", "launched"}
  /\ \/ /\ SyncCallWorks /\ StoreReachable
        /\ rc' = [rc EXCEPT !.pc = "regions", !.dbInstanceMap = DbInstanceMap(store),
                            !.regions = ConfiguredRegions]
     \/ /\ SyncCallFails
        /\ rc' = [rc EXCEPT !.pc = "idle"]
  /\ UNCHANGED <<store, cloud, lockOwner, cr, wf, dl, td, wg, faulty, sched, drain, localV2RayManager>>

\* instances, err := t.ec2Client.DescribeInstances(ctx, region) answers
SyncDescribeFetched(region) ==
  /\ rc.pc = "regions"
  /\ region \in rc.regions
  /\ SyncCallWorks
  /\ rc' = [rc EXCEPT !.regions = @ \ {region},
                      !.instances = DescribeInstances(cloud, region),
                      !.pc = RcNext(rc.regions \ {region},
                                    DescribeInstances(cloud, region))]
  /\ UNCHANGED <<store, cloud, lockOwner, cr, wf, dl, td, wg, faulty, sched, drain, localV2RayManager>>

\* ... or returns an error: the error is logged and the loop continues with the
\* next region; dbInstanceMap is left as it is.
SyncDescribeFailed(region) ==
  /\ rc.pc = "regions"
  /\ region \in rc.regions
  /\ SyncCallFails
  /\ rc' = [rc EXCEPT !.regions = @ \ {region},
                      !.pc = RcNext(rc.regions \ {region}, {})]
  /\ UNCHANGED <<store, cloud, lockOwner, cr, wf, dl, td, wg, faulty, sched, drain, localV2RayManager>>

SyncDescribe(region) == SyncDescribeFetched(region) \/ SyncDescribeFailed(region)

\* A faulty variant of updateInstance that takes the address and leaves the
\* status of the snapshot as it is.
updateInstanceAddressOnly(st, dbInstance, instance) ==
  Update(st, [dbInstance EXCEPT !.ip = instance.ip])

\* A faulty variant of updateInstance that takes the status and leaves the
\* address of the snapshot as it is.
updateInstanceStatusOnly(st, dbInstance, instance) ==
  Update(st, [dbInstance EXCEPT !.status = instance.status])

\* t.updateInstance(ctx, dbInstance, instance): the snapshot row with the observed
\* address and status, written back whole by t.repo.Update.
updateInstance(st, dbInstance, instance) ==
  Update(st, [dbInstance EXCEPT !.ip = instance.ip, !.status = instance.status])

\* t.createInstance(ctx, instance): nothing for an instance without UUID tag, else
\* a new row with status running.
createInstance(st, instance) ==
  IF instance.uuid = "" THEN st
  ELSE Create(st, [uuid |-> instance.uuid, ec2id |-> instance.id,
                   region |-> instance.region, status |-> StatusRunning,
                   deleted |-> FALSE])

\* one iteration of "for _, instance := range instances"
SyncInstance(instance) ==
  /\ rc.pc = "instances"
  /\ instance \in rc.instances
  /\ LET matched == instance.id \in DOMAIN rc.dbInstanceMap IN
       /\ \/ /\ SyncCallWorks /\ StoreReachable
             /\ matched \/ Len(store) < MaxRows
             /\ store' = IF matched
                         THEN updateInstance(store, rc.dbInstanceMap[instance.id], instance)
                         ELSE createInstance(store, instance)
          \/ /\ SyncCallFails
             /\ UNCHANGED store
       /\ rc' = [rc EXCEPT !.instances = @ \ {instance},
                           !.dbInstanceMap = IF matched THEN MapWithout(@, instance.id) ELSE @,
                           !.pc = RcNext(rc.regions, rc.instances \ {instance})]
  /\ UNCHANGED <<cloud, lockOwner, cr, wf, dl, td, wg, faulty, sched, drain, localV2RayManager>>

\* one iteration of "for ec2ID, instance := range dbInstanceMap":
\* t.repo.Delete(ctx, instance.UUID), its error logged
SyncDelete(ec2ID) ==
  /\ rc.pc = "sweep"
  /\ ec2ID \in DOMAIN rc.dbInstanceMap
  /\ \/ /\ SyncCallWorks /\ StoreReachable
        /\ store' = Delete(store, rc.dbInstanceMap[ec2ID].uuid)
     \/ /\ SyncCallFails
        /\ UNCHANGED store
  /\ rc' = [rc EXCEPT !.dbInstanceMap = MapWithout(@, ec2ID)]
  /\ UNCHANGED <<cloud, lockOwner, cr, wf, dl, td, wg, faulty, sched, drain, localV2RayManager>>

\* "AWS instance sync completed": the pass returns
SyncCompleted ==
  /\ rc.pc = "sweep"
  /\ DOMAIN rc.dbInstanceMap = {}
  /\ rc' = [rc EXCEPT !.pc = "idle"]
  /\ UNCHANGED <<store, cloud, lockOwner, cr, wf, dl, td, wg, faulty, sched, drain, localV2RayManager>>

\* ---------------------------------------------------------------- Scheduler
\* The task the scheduler holds under the one name there is.
HeldTask == sched.tasks["aws_instance_sync"]

\* The caller hands a task to Register.
RegisterCall(t) ==
  /\ sched.pc = "ready"
  /\ sched' = [sched EXCEPT !.pc = "register", !.arg = t]
  /\ UNCHANGED <<store, cloud, lockOwner, cr, wf, dl, td, rc, wg, faulty, drain, localV2RayManager>>

\* A faulty variant of Register that keeps the task already held under the name.
RegisterKeepingFirst ==
  /\ sched.pc = "register"
  /\ sched' = IF sched.tasks[Name(sched.arg)] = NoTask
              THEN [sched EXCEPT !.tasks[Name(sched.arg)] = sched.arg,
                                 !.pc = "ready", !.arg = NoTask]
              ELSE [sched EXCEPT !.pc = "ready", !.arg = NoTask]
  /\ UNCHANGED <<store, cloud, lockOwner, cr, wf, dl, td, rc, wg, faulty, drain, localV2RayManager>>

\* s.tasks[task.Name()] = task
Register ==
  /\ sched.pc = "register"
  /\ sched' = [sched EXCEPT !.tasks[Name(sched.arg)] = sched.arg,
                            !.pc = "ready", !.arg = NoTask]
  /\ UNCHANGED <<store, cloud, lockOwner, cr, wf, dl, td, rc, wg, faulty, drain, localV2RayManager>>

\* for name, task := range s.tasks { s.wg.Add(1); go func(t Task) { defer
\* s.wg.Done(); t.Start(s.ctx) }(task) }: main calls it once.
Start ==
  /\ sched.pc = "ready"
  /\ ~sched.started
  /\ IF HeldTask = NoTask
     THEN /\ sched' = [sched EXCEPT !.started = TRUE]
          /\ UNCHANGED rc
     ELSE /\ sched' = [sched EXCEPT !.started = TRUE, !.wg = @ + 1,
                                    !.launches[HeldTask] = @ + 1,
                                    !.running = HeldTask]
          /\ rc' = [rc EXCEPT !.pc = "launched"]
  /\ UNCHANGED <<store, cloud, lockOwner, cr, wf, dl, td, wg, faulty, drain, localV2RayManager>>

\* A faulty variant of the select that has no case for ctx.Done().
TaskReturnOnStopChOnly ==
  /\ rc.pc = "idle"
  /\ sched.running # NoTask
  /\ sched.stopCh[sched.running] = "closed"
  /\ rc' = [rc EXCEPT !.pc = "returned"]
  /\ sched' = [sched EXCEPT !.wg = @ - 1]
  /\ UNCHANGED <<store, cloud, lockOwner, cr, wf, dl, td, wg, faulty, drain, localV2RayManager>>

\* A faulty variant of the goroutine's exit in which the scheduler launches the
\* execution again when it returns.
TaskReturnRestarted ==
  /\ rc.pc = "idle"
  /\ sched.running # NoTask
  /\ sched.cancelled \/ sched.stopCh[sched.running] = "closed"
  /\ rc' = [rc EXCEPT !.pc = "launched"]
  /\ sched' = [sched EXCEPT !.launches[sched.running] = @ + 1]
  /\ UNCHANGED <<store, cloud, lockOwner, cr, wf, dl, td, wg, faulty, drain, localV2RayManager>>

\* The select of AWSInstanceSyncTask.Start between two passes: case <-ctx.Done()
\* and case <-t.stopCh return; then the deferred s.wg.Done() of the goroutine.
\* (case <-t.ticker.C is SyncList.)
TaskReturn ==
  /\ rc.pc = "idle"
  /\ sched.running # NoTask
  /\ sched.cancelled \/ sched.stopCh[sched.running] = "closed"
  /\ rc' = [rc EXCEPT !.pc = "returned"]
  /\ sched' = [sched EXCEPT !.wg = @ - 1]
  /\ UNCHANGED <<store, cloud, lockOwner, cr, wf, dl, td, wg, faulty, drain, localV2RayManager>>

\* Scheduler.Stop: s.cancel()
StopCancel ==
  /\ sched.pc = "ready"
  /\ sched.stops < MaxStops
  /\ sched' = [sched EXCEPT !.cancelled = TRUE, !.pc = "wait"]
  /\ UNCHANGED <<store, cloud, lockOwner, cr, wf, dl, td, rc, wg, faulty, drain, localV2RayManager>>

\* A faulty variant of the wait of Stop that does not wait.
StopWithoutWait ==
  /\ sched.pc = "wait"
  /\ sched' = [sched EXCEPT !.pc = "hooks"]
  /\ UNCHANGED <<store, cloud, lockOwner, cr, wf, dl, td, rc, wg, faulty, drain, localV2RayManager>>

\* s.wg.Wait()
StopWait ==
  /\ sched.pc = "wait"
  /\ sched.wg = 0
  /\ sched' = [sched EXCEPT !.pc = "hooks"]
  /\ UNCHANGED <<store, cloud, lockOwner, cr, wf, dl, td, rc, wg, faulty, drain, localV2RayManager>>

\* for name, task := range s.tasks { task.Stop() }, where
\* AWSInstanceSyncTask.Stop is close(t.stopCh): closing a closed channel panics,
\* and the process dies.
StopHooks ==
  /\ sched.pc = "hooks"
  /\ sched' =
       IF HeldTask = NoTask
       THEN [sched EXCEPT !.pc = "ready", !.stops = @ + 1]
       ELSE IF sched.stopCh[HeldTask] = "open"
            THEN [sched EXCEPT !.pc = "ready", !.stops = @ + 1,
                               !.stopCh[HeldTask] = "closed"]
            ELSE [sched EXCEPT !.pc = "panic"]
  /\ UNCHANGED <<store, cloud, lockOwner, cr, wf, dl, td, rc, wg, faulty, drain, localV2RayManager>>

SchedulerStep ==
  \/ \E t \in Tasks : RegisterCall(t)
  \/ Register
  \/ Start
  \/ StopCancel
  \/ StopWait
  \/ StopHooks

\* ---------------------------------------------------------------- V2RayService.Wait
\* main calls v2rayService.Wait() after the server has shut down.
WaitCall ==
  /\ drain = "idle"
  /\ drain' = "waiting"
  /\ UNCHANGED <<store, cloud, lockOwner, cr, wf, dl, td, rc, wg, faulty, sched, localV2RayManager>>

\* s.wg.Wait() returns when the counter is zero
WaitReturn ==
  /\ drain = "waiting"
  /\ wg = 0
  /\ drain' = "returned"
  /\ UNCHANGED <<store, cloud, lockOwner, cr, wf, dl, td, rc, wg, faulty, sched, localV2RayManager>>

\* ---------------------------------------------------------------- EC2 itself
\* A pending instance boots and gets its public address.
CloudRunning(i) ==
  /\ cloud[i].state = "pending"
  /\ cloud' = [cloud EXCEPT ![i].state = "running", ![i].ip = PublicIpOf(i)]
  /\ UNCHANGED <<store, lockOwner, cr, wf, dl, td, rc, wg, faulty, sched, drain, localV2RayManager>>

\* An instance ends: a requested shutdown completes, or the instance terminates
\* itself (the idle check of its user data) or is terminated from the console.
CloudTerminated(i) ==
  /\ cloud[i].state \in {"pending", "running", "shutting-down"}
  /\ cloud' = [cloud EXCEPT ![i].state = "terminated", ![i].ip = ""]
  /\ UNCHANGED <<store, lockOwner, cr, wf, dl, td, rc, wg, faulty, sched, drain, localV2RayManager>>

\* ---------------------------------------------------------------- specification
\* A step of one of the CreateInstance calls, with a region of `regions` as input.
CreateInstanceStep(calls, regions) ==
  \E c \in calls :
    \/ \E region \in regions : CreateLockTable(c, region)
    \/ CreateCheck(c)
    \/ CreateExisting(c)
    \/ CreateInsert(c)
    \/ CreateVerify(c)
    \/ CreateDuplicate(c)
    \/ CreateUnlockTable(c)

createInstanceAsyncStep ==
  \E c \in CreateCalls :
    \/ WorkflowCreating(c)
    \/ WorkflowRunInstances(c)
    \/ WorkflowGetByUUID(c)
    \/ WorkflowUpdate(c)
    \/ WorkflowWaitRunning(c)
    \/ WorkflowGetPublicIP(c)
    \/ WorkflowPublish(c)
    \/ WorkflowRunning(c)
    \/ WorkflowFailed(c)

DeleteInstanceStep ==
  \E d \in DeleteCalls :
    \/ \E uuid \in UUIDs : DeleteGetByUUID(d, uuid)
    \/ DeleteMarkDeleting(d)
    \/ DeleteReturn(d)

deleteInstanceAsyncStep ==
  \E d \in DeleteCalls :
    \/ TeardownDeleting(d)
    \/ TeardownTerminate(d)
    \/ TeardownWaitTerminated(d)
    \/ TeardownDelete(d)
    \/ TeardownFailed(d)

syncInstancesStep ==
  \/ SyncList
  \/ \E region \in ConfiguredRegions : SyncDescribe(region)
  \/ \E instance \in rc.instances : SyncInstance(instance)
  \/ \E ec2ID \in DOMAIN rc.dbInstanceMap : SyncDelete(ec2ID)
  \/ SyncCompleted

CloudStep == \E i \in InstanceIds : CloudRunning(i) \/ CloudTerminated(i)

\* One create call with its workflow, the reconciler and the cloud, over the table
\* an earlier run left, with calls that may fail.
Next ==
  \/ CreateInstanceStep({"c1"}, ConfiguredRegions)
  \/ createInstanceAsyncStep
  \/ syncInstancesStep
  \/ CloudStep

Spec == Init /\ [][Next]_vars

\* The service without the reconciler: two create calls with their workflows, a
\* delete call with its teardown, and the cloud, over a store and a cloud whose
\* calls do not fail.
NextService ==
  \/ CreateInstanceStep(CreateCalls, ConfiguredRegions)
  \/ createInstanceAsyncStep
  \/ DeleteInstanceStep
  \/ deleteInstanceAsyncStep
  \/ CloudStep

SpecService == InitReliable /\ [][NextService]_vars

\* Two create calls with their workflows and the cloud, over a store and a cloud
\* whose calls do not fail (a workflow still fails on a timeout or a region
\* without client).
NextRequests ==
  \/ CreateInstanceStep(CreateCalls, RequestRegions)
  \/ createInstanceAsyncStep
  \/ CloudStep

SpecRequests == InitReliable /\ [][NextRequests]_vars

\* The synchronous part of two create calls alone, over a store that does not fail.
NextAdmission == CreateInstanceStep(CreateCalls, RequestRegions)

SpecAdmission == InitReliable /\ [][NextAdmission]_vars

\* The reconciler alone, pass after pass, over a table and a cloud that nothing
\* else touches and whose calls do not fail.  The table holds a record of u1 linked
\* to instance i1 and a running record of u0 whose instance i0 is gone; the cloud
\* has i1 and i2 or not, tagged or with the tag taken off.
ReconcileRow(status) ==
  [uuid |-> "u1", ec2id |-> "i1", region |-> "r1", ip |-> "", status |-> status,
   deleted |-> FALSE]
GoneRow ==
  [uuid |-> LegacyUUID, ec2id |-> LegacyInstanceId, region |-> "r1",
   ip |-> PublicIpOf(LegacyInstanceId), status |-> StatusRunning, deleted |-> FALSE]
ReconcileTables ==
  {<<ReconcileRow(s)>> : s \in {StatusPending, StatusCreating, StatusError}}
    \cup {<<ReconcileRow(s), GoneRow>> : s \in {StatusPending, StatusCreating, StatusError}}
ReconcileInsts(i, uuid) ==
  {NoInst} \cup {[state |-> st, region |-> "r1", tag |-> t,
                  ip |-> IF st = "running" THEN PublicIpOf(i) ELSE ""] :
                   st \in {"pending", "running"}, t \in {uuid, ""}}
ReconcileClouds ==
  {[i \in InstanceIds |-> IF i = "i1" THEN a ELSE IF i = "i2" THEN b ELSE NoInst] :
     a \in ReconcileInsts("i1", "u1"), b \in ReconcileInsts("i2", "u2")}

InitReconcile ==
  \E st \in ReconcileTables, cl \in ReconcileClouds : InitWith(st, cl, FALSE)

NextReconcile ==
  \/ SyncList
  \/ \E region \in ConfiguredRegions : SyncDescribeFetched(region)
  \/ \E instance \in rc.instances : SyncInstance(instance)
  \/ \E ec2ID \in DOMAIN rc.dbInstanceMap : SyncDelete(ec2ID)
  \/ SyncCompleted

SpecReconcile == InitReconcile /\ [][NextReconcile]_vars

\* The reconciler alone during an outage of the cloud API: every DescribeInstances
\* call of a pass returns an error, store calls may fail as well.
InitOutage ==
  \E st \in ReconcileTables, cl \in ReconcileClouds : InitWith(st, cl, TRUE)

NextOutage ==
  \/ SyncList
  \/ \E region \in ConfiguredRegions : SyncDescribeFailed(region)
  \/ \E ec2ID \in DOMAIN rc.dbInstanceMap : SyncDelete(ec2ID)
  \/ SyncCompleted

SpecOutage == InitOutage /\ [][NextOutage]_vars

\* One create call on a configured region over an empty table, its workflow, the
\* reconciler and an instance that boots, with calls that do not fail.  The call
\* meets no other active record, so its two exits for one are left out.
CreateAloneStep ==
  \/ \E region \in ConfiguredRegions : CreateLockTable("c1", region)
  \/ CreateCheck("c1")
  \/ CreateInsert("c1")
  \/ CreateVerify("c1")
  \/ CreateUnlockTable("c1")

BootStep == \E i \in InstanceIds : CloudRunning(i)

NextConverge ==
  \/ CreateAloneStep
  \/ createInstanceAsyncStep
  \/ NextReconcile
  \/ BootStep

\* Every goroutine that can take a step takes one in the end, the reconciler's
\* ticker keeps firing, and a pending instance boots.
FairConverge ==
  /\ WF_vars(CreateAloneStep)
  /\ WF_vars(createInstanceAsyncStep)
  /\ WF_vars(NextReconcile)
  /\ WF_vars(BootStep)

SpecConverge == InitReliable /\ [][NextConverge]_vars /\ FairConverge

\* A delete call with its teardown and the reconciler, over the table and the
\* cloud a finished creation left (a running record of u0 on the running instance
\* i0), with a store and a cloud API that do not fail; a call on a cancelled
\* context still does.  An instance that is shutting down terminates; an instance
\* may also terminate by itself.
InitRemove ==
  InitWith(<<GoneRow>>,
           [i \in InstanceIds |-> IF i = LegacyInstanceId THEN LegacyInst ELSE NoInst],
           FALSE)

TerminateStep == \E i \in InstanceIds : CloudTerminated(i)

NextRemove ==
  \/ DeleteInstanceStep
  \/ deleteInstanceAsyncStep
  \/ NextReconcile
  \/ TerminateStep

\* The handler and the two goroutines keep taking their steps; nothing is assumed
\* of the cloud.
FairRemove ==
  /\ WF_vars(DeleteInstanceStep)
  /\ WF_vars(deleteInstanceAsyncStep)
  /\ WF_vars(NextReconcile)

SpecRemove == InitRemove /\ [][NextRemove]_vars /\ FairRemove

\* The scheduler from its construction, with a caller that registers tasks,
\* starts once and stops, and the execution of the task it launched, over the
\* table and the cloud an earlier run left, with calls that fail only on a
\* cancelled context.
InitScheduler ==
  /\ store = <<LegacyRow>>
  /\ cloud = [i \in InstanceIds |-> IF i = LegacyInstanceId THEN LegacyInst ELSE NoInst]
  /\ lockOwner = NoSession
  /\ cr = [c \in CreateCalls |-> [pc |-> "idle", region |-> "", uuid |-> "", err |-> FALSE]]
  /\ wf = [c \in CreateCalls |-> IdleWf]
  /\ dl = [d \in DeleteCalls |-> [pc |-> "idle", uuid |-> "", err |-> FALSE]]
  /\ td = [d \in DeleteCalls |-> [pc |-> "off", ec2ID |-> "", region |-> ""]]
  /\ rc = [IdleRc EXCEPT !.pc = "off"]
  /\ wg = 0
  /\ faulty = FALSE
  /\ sched = NewScheduler
  /\ drain = "idle"
  /\ localV2RayManager = "set"

NextScheduler ==
  \/ SchedulerStep
  \/ SyncList
  \/ \E region \in ConfiguredRegions : SyncDescribe(region)
  \/ \E instance \in rc.instances : SyncInstance(instance)
  \/ \E ec2ID \in DOMAIN rc.dbInstanceMap : SyncDelete(ec2ID)
  \/ SyncCompleted
  \/ TaskReturn
  \/ TerminateStep

SpecScheduler == InitScheduler /\ [][NextScheduler]_vars

\* The service on its way down: a create call and a delete call with their
\* workflows, the cloud, and main's call of Wait, with calls that may fail.
InitDrain == InitWith(<< >>, [i \in InstanceIds |-> NoInst], TRUE)

NextDrain ==
  \/ CreateAloneStep
  \/ createInstanceAsyncStep
  \/ DeleteInstanceStep
  \/ deleteInstanceAsyncStep
  \/ CloudStep
  \/ WaitCall
  \/ WaitReturn

SpecDrain == InitDrain /\ [][NextDrain]_vars

\* One create call on a configured region over an empty table, its workflow, the
\* reconciler and an instance that boots, with store calls and cloud calls of the
\* workflow that may fail: the workflow may end early at any of its steps.
InitStuck == InitWith(<< >>, [i \in InstanceIds |-> NoInst], TRUE)

\* The steps of a pass whose store call succeeds.
SyncListed == SyncList /\ rc'.pc = "regions"
SyncInstanceWritten ==
  \E instance \in rc.instances :
    /\ SyncInstance(instance)
    /\ store' = IF instance.id \in DOMAIN rc.dbInstanceMap
                THEN updateInstance(store, rc.dbInstanceMap[instance.id], instance)
                ELSE createInstance(store, instance)
SyncDeleted ==
  \E ec2ID \in DOMAIN rc.dbInstanceMap :
    SyncDelete(ec2ID) /\ store' = Delete(store, rc.dbInstanceMap[ec2ID].uuid)

\* Every goroutine that can take a step takes one in the end, the reconciler's
\* ticker keeps firing, a pending instance boots, and the store does not fail for
\* ever: a store call of the pass that is tried again and again succeeds in the end.
FairStuck ==
  /\ WF_vars(CreateAloneStep)
  /\ WF_vars(createInstanceAsyncStep)
  /\ WF_vars(NextReconcile)
  /\ WF_vars(BootStep)
  /\ SF_vars(SyncListed)
  /\ SF_vars(SyncInstanceWritten)
  /\ SF_vars(SyncDeleted)

SpecStuck == InitStuck /\ [][NextConverge]_vars /\ FairStuck

\* One create call on a configured region over an empty table, its workflow and
\* the cloud, over a store and a cloud whose calls do not fail, in a service built
\* without or with the manager of the local proxy config.
InitPublish ==
  \E manager \in {"nil", "set"} :
    InitConfigured(<< >>, [i \in InstanceIds |-> NoInst], FALSE, manager)

NextPublish ==
  \/ CreateAloneStep
  \/ createInstanceAsyncStep
  \/ CloudStep

SpecPublish == InitPublish /\ [][NextPublish]_vars

\* The same with its scheduling: a pass that runs takes its next step (its calls
\* return), the select of the task loop takes a case that stays ready, and the
\* caller inside Stop goes on when it can.
PassStep ==
  \/ SyncList
  \/ \E region \in ConfiguredRegions : SyncDescribe(region)
  \/ \E instance \in rc.instances : SyncInstance(instance)
  \/ \E ec2ID \in DOMAIN rc.dbInstanceMap : SyncDelete(ec2ID)
  \/ SyncCompleted

FairStop ==
  /\ WF_vars(PassStep)
  /\ WF_vars(TaskReturn)
  /\ WF_vars(StopWait)
  /\ WF_vars(StopHooks)

SpecStop == InitScheduler /\ [][NextScheduler]_vars /\ FairStop

\* ---------------------------------------------------------------- properties
\* The specification's notion of an active record: not soft-deleted, with status
\* pending, creating or running.
ActiveRecord(row) ==
  /\ ~row.deleted
  /\ row.status \in {StatusPending, StatusCreating, StatusRunning}

ActiveIn(region) == {i \in Rows(store) : store[i].region = region /\ ActiveRecord(store[i])}

\* C1 (I1): for every region, at most one non-deleted record of the store has
\* status pending, creating or running.
C1_OneActivePerRegion ==
  \A region \in RequestRegions : Cardinality(ActiveIn(region)) <= 1

\* C2 (P1): when two CreateInstance calls for the same region, started on a region
\* without active record, have both returned, neither returned an error, both
\* returned the same identifier, and the region has exactly one record.
C2_ConcurrentCreatesConverge ==
  \A a, b \in CreateCalls :
    (a # b /\ cr[a].pc = "done" /\ cr[b].pc = "done" /\ cr[a].region = cr[b].region)
      => /\ ~cr[a].err /\ ~cr[b].err
         /\ cr[a].uuid = cr[b].uuid
         /\ Cardinality({i \in Rows(store) : store[i].region = cr[a].region}) = 1

\* C4 (P1): a CreateInstance call for a region that is not configured inserts no
\* record, launches no workflow, and returns an error.
C4_UnknownRegionRejected ==
  \A c \in CreateCalls :
    (cr[c].pc # "idle" /\ cr[c].region \notin ConfiguredRegions)
      => /\ \A i \in Rows(store) : store[i].region # cr[c].region
         /\ wf[c].pc = "off"
         /\ cr[c].pc = "done" => cr[c].err

\* C3 (P2): a CreateInstance call for a configured region whose lookup finds an
\* active record inserts nothing, changes no record, launches no workflow, and
\* returns without error the uuid of a record of that region.
C3_ExistingActiveReturned ==
  [][\A c \in CreateCalls :
       (cr[c].region \in ConfiguredRegions /\ cr'[c] # cr[c])
         => /\ (cr[c].pc = "check" /\ ActiveIn(cr[c].region) # {})
                 => cr'[c].pc = "existing" /\ store' = store /\ wf' = wf /\ wg' = wg
            /\ cr[c].pc = "existing"
                 => /\ store' = store /\ wf' = wf /\ wg' = wg
                    /\ ~cr'[c].err
                    /\ \E i \in Rows(store) :
                         store[i].region = cr[c].region /\ store[i].uuid = cr'[c].uuid]_vars

\* C5 (I5): a soft-deleted record stays soft-deleted and keeps its status; no
\* operation moves it to another status.
C5_DeletedIsTerminal ==
  [][\A i \in Rows(store) :
       store[i].deleted => store'[i].deleted /\ store'[i].status = store[i].status]_vars

\* C6 (I6): a record whose status is error leaves that status only by the
\* caller's delete request; no workflow and no reconciler pass moves it out.
C6_ErrorLeftOnlyByRequestDelete ==
  [][\A i \in Rows(store) :
       (store[i].status = StatusError /\ store'[i].status # StatusError)
         => \E d \in DeleteCalls : DeleteMarkDeleting(d)]_vars

\* The status edges of the lifecycle.
LifecycleEdges ==
  {<<StatusPending, StatusCreating>>, <<StatusCreating, StatusRunning>>,
   <<StatusCreating, StatusError>>, <<StatusRunning, StatusError>>,
   <<StatusRunning, StatusDeleting>>,
   <<StatusError, StatusDeleting>>, <<StatusDeleting, StatusDeleted>>,
   <<StatusDeleting, StatusError>>}

\* C7: a record changes status only along an edge of the lifecycle, or to deleted
\* from a status other than deleted in the reconciler's sweep of records whose
\* cloud resource is gone.
C7_OnlyLifecycleEdges ==
  [][\A i \in Rows(store) :
       store'[i].status # store[i].status
         => \/ <<store[i].status, store'[i].status>> \in LifecycleEdges
            \/ /\ store'[i].status = StatusDeleted
               /\ \E ec2ID \in DOMAIN rc.dbInstanceMap : SyncDelete(ec2ID)]_vars

\* C8 (I2): every record whose status is running has a non-empty cloud identifier.
C8_RunningHasCloudId ==
  \A i \in Rows(store) : store[i].status = StatusRunning => store[i].ec2id # ""

\* The creation workflow has run to its end and its record, the only one with
\* its uuid, is running with the identifier and the address the cloud gave.
C8_Witness ==
  /\ wf["c1"].pc = "done"
  /\ Cardinality({i \in Rows(store) : store[i].uuid = NewUUID("c1")}) = 1
  /\ \E i \in Rows(store) :
       /\ store[i].uuid = NewUUID("c1")
       /\ store[i].status = StatusRunning
       /\ store[i].ec2id = NewInstanceId("c1")
       /\ store[i].ip = PublicIpOf(NewInstanceId("c1"))

\* C9 (I3): no two records of the store have the same uuid.
C9_UuidUnique ==
  \A i, j \in Rows(store) : i # j => store[i].uuid # store[j].uuid

\* C10 (I4): a record has status deleted exactly when it is soft-deleted, and no
\* record is ever removed from the store.
C10_DeletedIffSoftDeleted ==
  /\ [](\A i \in Rows(store) : (store[i].status = StatusDeleted) <=> store[i].deleted)
  /\ [][Len(store') >= Len(store)]_vars

\* The instances the cloud reports live in the configured regions.
LiveInstances == UNION {DescribeInstances(cloud, region) : region \in ConfiguredRegions}

\* The step on which a reconciler pass returns.
PassCompletes == rc.pc = "sweep" /\ rc'.pc = "idle"

\* C11: when a reconciler pass that ran alone returns, (a) the record of u1 linked
\* to a live instance tagged u1 carries the status and the address the cloud
\* reports for it, (b) every live running instance tagged u has a non-deleted
\* running record of u with its cloud identifier, and (c) every record whose cloud
\* identifier is not in the live list is soft-deleted.  With A = i1 (tag u1,
\* running), B = i2 (tag u2, running) and the table {u1 pending on i1, u0 running
\* on the vanished i0} this is: u1 running with i1's address, u2 created running,
\* u0 soft-deleted.
C11_PassConverges ==
  [][PassCompletes =>
       /\ \A inst \in LiveInstances :
             (inst.uuid = "u1" /\ inst.id = "i1" /\ store[1].uuid = "u1"
                /\ store[1].ec2id = "i1")
               => /\ store[1].status = inst.status /\ store[1].ip = inst.ip
                  /\ ~store[1].deleted
       /\ \A inst \in LiveInstances :
             (inst.uuid # "" /\ inst.status = StatusRunning)
               => \E i \in Rows(store) :
                    /\ store[i].uuid = inst.uuid /\ store[i].ec2id = inst.id
                    /\ ~store[i].deleted /\ store[i].status = StatusRunning
       /\ \A i \in Rows(store) :
             store[i].ec2id \notin {inst.id : inst \in LiveInstances}
               => store[i].deleted /\ store[i].status = StatusDeleted]_vars

\* The scenario of C11 after its pass.
C11_Witness ==
  /\ rc.pc = "idle"
  /\ cloud["i1"].state = "running" /\ cloud["i1"].tag = "u1"
  /\ cloud["i2"].state = "running" /\ cloud["i2"].tag = "u2"
  /\ Len(store) = 3
  /\ store[1] = [ReconcileRow(StatusRunning) EXCEPT !.ip = PublicIpOf("i1")]
  /\ store[2] = [GoneRow EXCEPT !.status = StatusDeleted, !.deleted = TRUE]
  /\ store[3].uuid = "u2" /\ store[3].ec2id = "i2" /\ ~store[3].deleted
  /\ store[3].status = StatusRunning

\* The cloud identifiers of the instances that are live.
LiveIds == {inst.id : inst \in LiveInstances}

\* C12: a reconciler step soft-deletes a record only when the record's cloud
\* instance is not in the cloud's live set at that time: no step of the sweep turns
\* isDeleted on for a record whose instance is live.
C12_SweepOnlyAbsent ==
  [][(rc.pc = "sweep" /\ rc' # rc)
       => \A i \in Rows(store) :
            (~store[i].deleted /\ store'[i].deleted) => store[i].ec2id \notin LiveIds]_vars

\* C13: a pass in which the live-list fetch of region R failed only skips R: it
\* changes no record of R whose instance is live, so that the next pass with a
\* successful fetch finds these records as the failure-free pass would have.
C13_FailedFetchSkipsRegion ==
  [][rc' # rc
       => \A i \in Rows(store) :
            (store[i].region \in ConfiguredRegions /\ store[i].ec2id \in LiveIds)
              => store'[i] = store[i]]_vars

\* C14: the reconciler's step for a live instance without ownership tag changes
\* nothing: no record is created or updated, and no record leaves the unmatched
\* set.
C14_UntaggedSkipped ==
  [][\A inst \in rc.instances :
       (rc.pc = "instances" /\ inst.uuid = "" /\ rc'.instances = rc.instances \ {inst})
         => store' = store /\ rc'.dbInstanceMap = rc.dbInstanceMap]_vars

\* The records a creation workflow owns: the rows with the uuid of its call.
RecordsOf(st, uuid) == {i \in Rows(st) : st[i].uuid = uuid}

\* C15: on the step on which a creation workflow returns, every record it owns
\* has status running or error, whatever step failed.
C15_WorkflowEndsRunningOrError ==
  [][\A c \in CreateCalls :
       (wf[c].pc # "done" /\ wf'[c].pc = "done")
         => \A i \in RecordsOf(store', NewUUID(c)) :
              store'[i].status \in {StatusRunning, StatusError}]_vars

\* C16: a wait that ends while the instance is not running returns an error; a
\* workflow that has returned while its instance still has not come up left its
\* record in status error; and a workflow that has its instance never comes
\* back to the cloud create call.
C16_WaitTimeoutEndsInError ==
  /\ [](\A c \in CreateCalls :
          (wf[c].pc = "done" /\ wf[c].ec2ID # "" /\ cloud[wf[c].ec2ID].state = "pending")
            => /\ RecordsOf(store, NewUUID(c)) # {}
               /\ \A i \in RecordsOf(store, NewUUID(c)) : store[i].status = StatusError)
  /\ [][\A c \in CreateCalls :
         /\ (wf[c].pc = "waitRunning" /\ wf'[c].pc # "waitRunning"
               /\ cloud[wf[c].ec2ID].state # "running") => wf'[c].pc = "failed"
         /\ wf[c].ec2ID # "" => (wf'[c].pc # "runInstances" /\ wf'[c].ec2ID = wf[c].ec2ID)]_vars

\* A workflow gave up waiting for an instance that is still pending.
C16_Witness ==
  /\ wf["c1"].pc = "done" /\ wf["c1"].ec2ID = "i1"
  /\ cloud["i1"].state = "pending"
  /\ \E i \in Rows(store) :
       store[i].uuid = "u1" /\ store[i].ec2id = "i1" /\ store[i].status = StatusError

\* A listed record of uuid that is running with the address ip.
RunningAt(uuid, ip) ==
  \E i \in List(store) :
    store[i].uuid = uuid /\ store[i].status = StatusRunning /\ store[i].ip = ip

\* C17: the create call inserts its record with status pending, and once the
\* instance the workflow launched is running with its address, the inventory
\* eventually lists a record of the uuid with status running and that address,
\* whatever reconciler passes interleave.
C17_CreateConverges ==
  /\ [][\A c \in CreateCalls :
         (cr[c].pc = "insert" /\ cr'[c].pc = "verify")
           => /\ Len(store') = Len(store) + 1
              /\ store'[Len(store')].uuid = NewUUID(c)
              /\ store'[Len(store')].status = StatusPending
              /\ ~store'[Len(store')].deleted]_vars
  /\ \A c \in CreateCalls :
       (wf[c].ec2ID # "" /\ cloud[NewInstanceId(c)].state = "running")
         ~> RunningAt(NewUUID(c), PublicIpOf(NewInstanceId(c)))

\* The workflow of c1 returned with its record running at the instance's address.
C17_Witness ==
  /\ wf["c1"].pc = "done" /\ wf["c1"].ip = PublicIpOf("i1")
  /\ cloud["i1"].state = "running"
  /\ RunningAt("u1", PublicIpOf("i1"))

\* No record of uuid is left but soft-deleted ones with status deleted.
SoftDeleted(uuid) ==
  /\ RecordsOf(store, uuid) # {}
  /\ \A i \in RecordsOf(store, uuid) : store[i].deleted /\ store[i].status = StatusDeleted

\* C18: after DeleteInstance(U) on a running record has returned ok, once the
\* cloud reports U's instance absent or terminated the record eventually has
\* status deleted with isDeleted set, and List returns it no more.
C18_DeleteConverges ==
  \A d \in DeleteCalls :
    (/\ dl[d].pc = "done" /\ ~dl[d].err /\ dl[d].uuid = LegacyUUID
     /\ cloud[LegacyInstanceId].state \in {"absent", "terminated"})
      ~> SoftDeleted(LegacyUUID)

\* C19: DeleteInstance for a uuid that has no record, or only soft-deleted ones,
\* returns an error on its first step, changes no record, launches no teardown
\* and makes no cloud call; its teardown goroutine never runs.
C19_DeleteUnknownRejected ==
  /\ [][\A d \in DeleteCalls :
         (/\ dl[d].pc = "idle" /\ dl'[d].pc # "idle"
          /\ \A i \in RecordsOf(store, dl'[d].uuid) : store[i].deleted)
           => /\ dl'[d].pc = "done" /\ dl'[d].err
              /\ store' = store /\ cloud' = cloud /\ td' = td /\ wg' = wg]_vars
  /\ [](\A d \in DeleteCalls : (dl[d].pc = "done" /\ dl[d].err) => td[d].pc = "off")

\* A delete call for the uuid of a soft-deleted record was turned down.
C19_Witness ==
  /\ dl["d1"].pc = "done" /\ dl["d1"].err
  /\ td["d1"].pc = "off"
  /\ RecordsOf(store, dl["d1"].uuid) # {}
  /\ \A i \in RecordsOf(store, dl["d1"].uuid) : store[i].deleted

\* C20: on the step on which a teardown workflow returns, every record of its
\* uuid is soft-deleted with status deleted, or has status error; and a teardown
\* that has issued its terminate call never comes back to it.
C20_TeardownEndsDeletedOrError ==
  [][\A d \in DeleteCalls :
       /\ (td[d].pc # "done" /\ td'[d].pc = "done")
            => \A i \in RecordsOf(store', dl[d].uuid) :
                 \/ store'[i].deleted /\ store'[i].status = StatusDeleted
                 \/ store'[i].status = StatusError
       /\ td[d].pc \in {"waitTerminated", "delete", "failed", "done"}
            => td'[d].pc # "terminate"]_vars

\* The execution of a started task is under way.
TaskRunning == rc.pc \notin {"off", "returned"}

\* C22: Stop raises the cancellation signal first, waits for the execution of
\* every started task next, and invokes the stop hooks last: Stop is past its
\* first step only with the signal raised, it is at its hooks only with no
\* execution under way, and no hook runs (no stop channel is closed, no close
\* panics) while an execution is under way.
C22_StopOrder ==
  /\ [](sched.pc \in {"wait", "hooks"} => sched.cancelled)
  /\ [](sched.pc = "hooks" => ~TaskRunning)
  /\ [][(sched'.stopCh # sched.stopCh \/ (sched.pc # "panic" /\ sched'.pc = "panic"))
          => sched.pc = "hooks" /\ sched.cancelled /\ ~TaskRunning]_vars

\* Stop has run its hook on the task it holds, after that task's execution, which
\* was launched and went through a pass, had returned.
C22_Witness ==
  /\ sched.stops = 1 /\ sched.pc = "ready"
  /\ HeldTask # NoTask /\ sched.running = HeldTask
  /\ sched.stopCh[HeldTask] = "closed"
  /\ rc.pc = "returned"
  /\ store[1].status = StatusRunning

\* The workflows that were launched and have not returned.
InFlight ==
  Cardinality({c \in CreateCalls : wf[c].pc \notin {"off", "done"}})
    + Cardinality({d \in DeleteCalls : td[d].pc \notin {"off", "done"}})

\* C21: the drain counter is the number of launched workflows that have not
\* returned (a launch adds one, every exit takes one off, once), Wait returns only
\* with no workflow in flight, and a call returns success only with its workflow
\* launched and counted.
C21_WaitDrainsWorkflows ==
  /\ [](wg = InFlight)
  /\ [][(drain = "waiting" /\ drain' = "returned") => InFlight = 0]_vars
  /\ [](\A c \in CreateCalls :
          (cr[c].pc \in {"unlock", "done"} /\ ~cr[c].err /\ cr[c].uuid = NewUUID(c))
            => wf[c].pc # "off")
  /\ [](\A d \in DeleteCalls :
          (dl[d].pc \in {"respond", "done"} /\ ~dl[d].err) => td[d].pc # "off")

\* Wait returned after a creation workflow and a teardown that had been launched
\* both returned.
C21_Witness ==
  /\ drain = "returned"
  /\ wf["c1"].pc = "done"
  /\ td["d1"].pc = "done"
  /\ wg = 0

\* C23: a second call of Stop completes like the first: no call of Stop ends in
\* the panic of closing a closed stop channel.
C23_StopIdempotent == sched.pc # "panic"

\* C24: Start launches the execution of each task the scheduler holds at that
\* time once and of no other task, the execution runs on the scheduler's
\* context, nothing but Start launches an execution, and an execution that has
\* returned stays returned.
C24_StartLaunchesOnce ==
  /\ [][(~sched.started /\ sched'.started)
          => /\ \A t \in Tasks : sched'.launches[t] = IF t = HeldTask THEN 1 ELSE 0
             /\ sched'.running = HeldTask
             /\ HeldTask # NoTask => rc'.pc = "launched"]_vars
  /\ [][sched'.launches # sched.launches => (~sched.started /\ sched'.started)]_vars
  /\ [][rc.pc = "returned" => rc'.pc = "returned"]_vars
  /\ [](\A t \in Tasks : sched.launches[t] <= 1)

\* The task held at Start was launched once, ran, returned on the cancellation
\* and was not launched again while the caller went on to stop.
C24_Witness ==
  /\ sched.started /\ sched.running = "t2"
  /\ sched.launches = [t \in Tasks |-> IF t = "t2" THEN 1 ELSE 0]
  /\ rc.pc = "returned"
  /\ sched.stops = 1

\* C25: Register(t) leaves t as the one task held under its name, whatever was
\* held before; Start launches, and the hooks of Stop close the channel of, the
\* task held at that time only.
C25_RegisterOverwrites ==
  /\ [][(sched.pc = "register" /\ sched'.pc = "ready")
          => sched'.tasks = [n \in TaskNames |-> sched.arg]]_vars
  /\ [][\A t \in Tasks :
         (sched'.launches[t] # sched.launches[t] \/ sched'.stopCh[t] # sched.stopCh[t])
           => t = HeldTask]_vars

\* t1 was registered and started, t2 registered over it, and Stop ran the hook
\* of t2 alone.
C25_Witness ==
  /\ sched.running = "t1" /\ HeldTask = "t2"
  /\ sched.stops = 1
  /\ sched.stopCh = [t \in Tasks |-> IF t = "t2" THEN "closed" ELSE "open"]

\* A pass of the reconciler is under way.
InPass == rc.pc \in {"regions", "instances", "sweep"}

C27_UpdateTouchesAddressAndStatusOnly ==
  [][\A inst \in rc.instances :
       (/\ rc.pc = "instances" /\ rc'.instances = rc.instances \ {inst}
        /\ inst.id \in DOMAIN rc.dbInstanceMap)
         => \A i \in Rows(store) :
              /\ store'[i].ec2id = store[i].ec2id
              /\ store'[i].region = store[i].region
              /\ store'[i].deleted = store[i].deleted]_vars

\* C28: the record the reconciler creates for a tagged live instance that matches
\* no record carries the status derived from the instance's cloud state, with the
\* instance's cloud identifier, region and tag uuid.
C28_CreatedWithDerivedStatus ==
  [][\A inst \in rc.instances :
       (/\ rc.pc = "instances" /\ rc'.instances = rc.instances \ {inst}
        /\ inst.id \notin DOMAIN rc.dbInstanceMap /\ inst.uuid # "")
         => /\ Len(store') = Len(store) + 1
            /\ store'[Len(store')].uuid = inst.uuid
            /\ store'[Len(store')].ec2id = inst.id
            /\ store'[Len(store')].region = inst.region
            /\ store'[Len(store')].status = inst.status]_vars

\* C29: whatever the publish step answers (success, failure, or no manager and
\* no call), the workflow goes on to its last write with the address it observed
\* and nothing written in between, and that write leaves its record running with
\* that address: a workflow that returned after a publish step of any outcome left
\* a running record with the observed address.
C29_PublishNeverChangesOutcome ==
  /\ [][\A c \in CreateCalls :
         /\ (wf[c].pc = "publish" /\ wf'[c] # wf[c])
              => /\ wf'[c].pc = "running"
                 /\ wf'[c].publish \in {"none", "ok", "failed"}
                 /\ wf'[c].ip = wf[c].ip
                 /\ store' = store /\ wg' = wg
         /\ (wf[c].pc = "running" /\ wf'[c].pc = "done")
              => /\ RecordsOf(store', NewUUID(c)) # {}
                 /\ \A i \in RecordsOf(store', NewUUID(c)) :
                      store'[i].status = StatusRunning /\ store'[i].ip = wf[c].ip]_vars
  /\ [](\A c \in CreateCalls :
          (wf[c].pc = "done" /\ wf[c].publish # "")
            => RunningAt(NewUUID(c), PublicIpOf(NewInstanceId(c))))

\* The workflow of c1 returned after a failed publish, its record running at the
\* instance's address.
C29_Witness ==
  /\ wf["c1"].pc = "done" /\ wf["c1"].publish = "failed"
  /\ RunningAt("u1", PublicIpOf("i1"))

\* C30: a re-scan that counts more than one active record of the region leads to
\* the duplicate exit and launches nothing; the exit soft-deletes the records of
\* the call's own uuid and changes no other record, returns an error without a
\* uuid, and launches no workflow: a call that returned an error has none.
C30_DuplicateRemovesOwnRecord ==
  /\ [][\A c \in CreateCalls :
         /\ (/\ cr[c].pc = "verify" /\ cr'[c].pc # "verify"
              /\ Cardinality({i \in Rows(store) : /\ store[i].region = cr[c].region
                                                  /\ ~store[i].deleted
                                                  /\ store[i].status \in
                                                       {StatusPending, StatusCreating,
                                                        StatusRunning}}) > 1)
              => /\ cr'[c].pc = "duplicate"
                 /\ wf' = wf /\ wg' = wg /\ store' = store
         /\ (cr[c].pc = "duplicate" /\ cr'[c].pc # "duplicate")
              => /\ RecordsOf(store, NewUUID(c)) # {}
                 /\ Len(store') = Len(store)
                 /\ \A i \in Rows(store) :
                      IF store[i].uuid = NewUUID(c)
                      THEN /\ store'[i].deleted /\ store'[i].status = StatusDeleted
                           /\ store'[i].region = store[i].region
                      ELSE store'[i] = store[i]
                 /\ cr'[c].err /\ cr'[c].uuid = ""
                 /\ wf' = wf /\ wg' = wg]_vars
  /\ [](\A c \in CreateCalls : cr[c].err => wf[c].pc = "off")

\* The call c1 returned the duplicate error: its record is soft-deleted, the
\* record of the other call in the same region is untouched, no workflow of c1.
C30_Witness ==
  /\ cr["c1"].pc = "done" /\ cr["c1"].err
  /\ wf["c1"].pc = "off"
  /\ \E i, j \in Rows(store) :
       /\ store[i].uuid = NewUUID("c1") /\ store[i].deleted
       /\ store[i].status = StatusDeleted
       /\ store[j].uuid = NewUUID("c2") /\ ~store[j].deleted
       /\ store[j].status = StatusPending /\ store[j].region = store[i].region

\* The CreateInstance calls between their LockTable and their UnlockTable.
Admitting == {c \in CreateCalls :
               cr[c].pc \in {"check", "existing", "insert", "verify", "duplicate", "unlock"}}

\* C31: at most one CreateInstance call is between its lock acquisition and its
\* release at any time, and once every call has returned no session holds the
\* table lock.
C31_LockExclusiveAndReleased ==
  /\ Cardinality(Admitting) <= 1
  /\ (\A c \in CreateCalls : cr[c].pc = "done") => lockOwner = NoSession

\* C32: when a CreateInstance call has returned an error, no record of the uuid
\* it generated is left non-deleted, and no creation workflow was launched for it.
C32_FailedCreateLeavesNothing ==
  \A c \in CreateCalls :
    (cr[c].pc \in {"unlock", "done"} /\ cr[c].err)
      => /\ \A i \in RecordsOf(store, NewUUID(c)) : store[i].deleted
         /\ wf[c].pc = "off"

\* C33: once DeleteInstance(u) has returned ok, no record of u has status
\* pending, creating or running.
C33_NoActiveStatusAfterDelete ==
  \A d \in DeleteCalls :
    (dl[d].pc = "done" /\ ~dl[d].err)
      => \A i \in RecordsOf(store, dl[d].uuid) :
           store[i].status \notin {StatusPending, StatusCreating, StatusRunning}

\* The creation workflow of call c is launched and has not returned.
WorkflowInFlight(c) == wf[c].pc \notin {"off", "done"}

\* C34: a step of a reconciler pass leaves untouched every non-deleted record
\* with status pending or creating whose cloud identifier is still empty while the
\* creation workflow of its uuid is in flight.
C34_SweepSparesUnlinkedRecords ==
  [][rc' # rc =>
       \A c \in CreateCalls : \A i \in RecordsOf(store, NewUUID(c)) :
         (/\ WorkflowInFlight(c)
          /\ store[i].ec2id = "" /\ ~store[i].deleted
          /\ store[i].status \in {StatusPending, StatusCreating})
           => store'[i] = store[i]]_vars

\* C35: a teardown workflow that has returned did not stop short: it does not
\* leave a record of its uuid in status deleting while the instance it was to
\* terminate is still running, whether or not the request that launched it has
\* ended in the meantime.
C35_TeardownOutlivesRequest ==
  \A d \in DeleteCalls :
    (td[d].pc = "done" /\ td[d].ec2ID \in InstanceIds)
      => ~ /\ cloud[td[d].ec2ID].state = "running"
           /\ \E i \in RecordsOf(store, dl[d].uuid) :
                ~store[i].deleted /\ store[i].status = StatusDeleting

\* The cloud calls of the two workflows, by the position that issues them.
CreateCloudCalls == {"runInstances", "waitRunning", "getPublicIP"}
TeardownCloudCalls == {"terminate", "waitTerminated"}

\* C36: the first failure of a cloud call of a workflow takes the workflow to its
\* error exit (in the wait for running too: the first describe that fails ends
\* the wait), and the error exit leads to the return and to no call again.
C36_CloudCallsAttemptedOnce ==
  [][/\ \A c \in CreateCalls :
         /\ (wf[c].pc = "waitRunning" /\ ~wf[c].describeErr /\ wf'[c].describeErr)
              => wf'[c].pc = "failed"
         /\ (wf[c].pc \in CreateCloudCalls /\ wf'[c].pc \notin CreateCloudCalls)
              => wf'[c].pc \in {"getByUUID", "publish", "failed"}
         /\ wf[c].pc = "failed" => wf'[c].pc \in {"failed", "done"}
     /\ \A d \in DeleteCalls :
         /\ (td[d].pc \in TeardownCloudCalls /\ td'[d].pc \notin TeardownCloudCalls)
              => td'[d].pc \in {"delete", "failed"}
         /\ td[d].pc = "failed" => td'[d].pc \in {"failed", "done"}]_vars

\* C37: every record that has status pending or creating eventually has status
\* running, error or deleted, also when its creation workflow returned early
\* after a failed store write, under fair scheduling with a reconciler whose
\* passes keep coming and whose store calls succeed in the end.
C37_NoRecordStuck ==
  \A i \in 1..(MaxRows + 1) :
    (i \in Rows(store) /\ store[i].status \in {StatusPending, StatusCreating})
      ~> (i \in Rows(store)
            /\ store[i].status \in {StatusRunning, StatusError, StatusDeleted})
====
